---- MODULE Spec2Model ----
(***************************************************************************)
(* Car Finder PWA: the Position Acquirer (the useGeolocation hook), the   *)
(* geometry it relies on, the persistence layer, the CarFinder component   *)
(* with the useDeviceOrientation hook, and the service worker.             *)
(*                                                                         *)
(* Numbers.  JavaScript numbers are modelled as exact rationals <<n, d>>   *)
(* with d > 0.            Coordinates are counted in arc-metres along one *)
(* meridian: latitude k stands for k * 180 / (pi * EARTH_RADIUS_METERS)    *)
(* degrees, and every fix of the watch has the same longitude, so that the *)
(* haversine distance of two positions is the absolute difference of their *)
(* latitudes.                                                              *)
(***************************************************************************)
EXTENDS Integers, Sequences, FiniteSets, TLC

VARIABLES
    geoSupported,             \* whether navigator.geolocation exists
    position,                 \* useState: Coordinates | null
    accuracy,                 \* useState: number | null
    error,                    \* useState: string | null
    isTracking,               \* useState: boolean
    isLoading,                \* useState: boolean
    watchIdRef,               \* useRef: number | null
    positionBufferRef,        \* useRef: PositionReading[]
    lastReportedPositionRef,  \* useRef: Coordinates | null
    watches,                  \* ids of the watches registered with the device
    nextWatchId,              \* the id the next watchPosition call returns
    deliveries,               \* every fix the device has delivered to a watch
    mounted,                  \* whether the component using the hook is mounted
    gbrPc,                    \* getBestReading: "idle", "await", "delay", "done"
    numSamples,               \* getBestReading: its argument
    i,                        \* getBestReading: the loop counter
    readings,                 \* getBestReading: the local array readings
    gbrResult,                \* getBestReading: what the promise resolved with
    requestLog,               \* the one-shot requests the device received
    timers,                   \* due times of the pending setTimeout callbacks
    now,                      \* the clock, in milliseconds
    gcpPc,                    \* getCurrentPosition: "idle", "await"
    call,                     \* the geometry function called last, with its arguments
    result,                   \* what that call returned
    localStorage,             \* window.localStorage: pairs <<key, text>>
    storageLog,               \* the saveCarLocation and clearCarLocation calls made
    carFinder,                \* CarFinder's useState: savedLocation, mode, ...
    navPc,                    \* handleStartNavigation: "idle", "prompt"
    mountPc,                  \* CarFinder's mount effect: "pending", "done"
    clearedSince,             \* handleClearLocation ran after the last save began
    orientation,              \* useDeviceOrientation's useState
    listenerRef,              \* useDeviceOrientation's useRef
    eventListeners,           \* the event listeners registered on window
    availabilityChecks,       \* the pending timeouts of startListening
    orientationApi,           \* what DeviceOrientationEvent is on this device
    caches,                   \* CacheStorage: cache name -> cached URLs
    worker                    \* the service worker's lifecycle state

vars == <<geoSupported, position, accuracy, error, isTracking, isLoading,
          watchIdRef, positionBufferRef, lastReportedPositionRef, watches,
          nextWatchId, deliveries, mounted, gbrPc, numSamples, i, readings,
          gbrResult, requestLog, timers, now, gcpPc, call, result,
          localStorage, storageLog, carFinder, navPc, mountPc, clearedSince,
          orientation, listenerRef, eventListeners, availabilityChecks, orientationApi,
          caches, worker>>

hookState == <<position, accuracy, error, isTracking, isLoading>>
trackingVars == <<watchIdRef, positionBufferRef, lastReportedPositionRef,
                  watches, nextWatchId, deliveries, mounted>>
samplingVars == <<gbrPc, numSamples, i, readings, gbrResult, requestLog,
                  timers, now>>
storageVars == <<localStorage, storageLog>>
carFinderVars == <<carFinder, navPc, mountPc, clearedSince>>
orientationVars == <<orientation, listenerRef, eventListeners,
                     availabilityChecks, orientationApi>>
workerVars == <<caches, worker>>
utilityVars == <<call, result>>
appVars == <<utilityVars, storageVars, carFinderVars, orientationVars,
             workerVars>>

----------------------------------------------------------------------------
(* Bounds of the model *)

MaxSamples == 3     \* the largest numSamples passed to getBestReading
MaxTicks == 3       \* the clock stops after this many ticks
MaxFixes == 6       \* fixes the device delivers to watches
MaxWatches == 2     \* watchPosition calls

(* Program constants *)

POSITION_BUFFER_SIZE == 5
SAMPLE_DELAY_MS == 800
MOVEMENT_THRESHOLD_FACTOR == <<1, 2>>

TickMs == SAMPLE_DELAY_MS
MaxNow == MaxTicks * TickMs

(* null, for the values that are objects or null *)
null == [null |-> TRUE]
(* null, for the values that are numbers or null *)
nullNumber == 0 - 1

NOT_SUPPORTED == "Geolocation is not supported by your browser."
NO_READINGS == "Failed to get any GPS readings."
NO_ERROR == "null"

----------------------------------------------------------------------------
(* Exact arithmetic on numbers *)

RECURSIVE GCD(_, _)
GCD(a, b) == IF b = 0 THEN a ELSE GCD(b, a % b)

Abs(a) == IF a < 0 THEN 0 - a ELSE a

Norm(n, d) ==
    LET g == GCD(Abs(n), Abs(d))
        s == IF d < 0 THEN 0 - 1 ELSE 1
    IN  <<(s * n) \div g, (s * d) \div g>>

Num(k) == <<k, 1>>
(* Sums and quotients are reduced to lowest terms, so that equal numbers
   are equal values; products and differences are only compared. *)
RAdd(a, b) == Norm(a[1] * b[2] + b[1] * a[2], a[2] * b[2])
RSub(a, b) == <<a[1] * b[2] - b[1] * a[2], a[2] * b[2]>>
RMul(a, b) == <<a[1] * b[1], a[2] * b[2]>>
RDiv(a, b) == Norm(a[1] * b[2], a[2] * b[1])
RAbs(a) == <<Abs(a[1]), a[2]>>
RGt(a, b) == a[1] * b[2] > b[1] * a[2]

----------------------------------------------------------------------------
(* The device *)

Lats == {0, 10}            \* latitudes of the fixes, in arc-metres
Lng == 0                   \* the longitude of every fix
SampleAccs == {5, 15, 20}  \* accuracies of one-shot fixes, in metres
WatchAccs == {10, 20}      \* accuracies of watch fixes, in metres
ErrorCodes == {1, 2, 3}    \* PERMISSION_DENIED, POSITION_UNAVAILABLE, TIMEOUT
WatchErrorCodes == {3}     \* the error a running watch reports: TIMEOUT

Coords(lat) == [latitude |-> Num(lat), longitude |-> Num(Lng)]

(* GeolocationPosition values: coords.latitude, coords.longitude,
   coords.accuracy and timestamp *)
Fix(lat, acc, ts) == [coords |-> Coords(lat), accuracy |-> acc, timestamp |-> ts]

Pending == [kind |-> "pending"]
Failed == [kind |-> "error"]
Delivered(pos) == [kind |-> "fix", pos |-> pos]

(* navigator.geolocation.getCurrentPosition(resolve, reject, GEO_OPTIONS) *)
Request(log, t) == Append(log, [at |-> t, outcome |-> Pending])

Outstanding == {k \in DOMAIN requestLog : requestLog[k].outcome = Pending}

Resolve(log, k, outcome) == [log EXCEPT ![k].outcome = outcome]

----------------------------------------------------------------------------
(* The state after construction: useState and useRef initial values *)

HookInit ==
    /\ geoSupported \in BOOLEAN
    /\ position = null
    /\ accuracy = nullNumber
    /\ error = NO_ERROR
    /\ isTracking = FALSE
    /\ isLoading = FALSE
    /\ watchIdRef = nullNumber
    /\ positionBufferRef = <<>>
    /\ lastReportedPositionRef = null
    /\ watches = {}
    /\ nextWatchId = 1
    /\ deliveries = <<>>
    /\ mounted = TRUE
    /\ gbrPc = "idle"
    /\ numSamples = 0
    /\ i = 0
    /\ readings = <<>>
    /\ gbrResult = null
    /\ requestLog = <<>>
    /\ timers = {}
    /\ now = 0
    /\ gcpPc = "idle"
    /\ call = [op |-> "none"]
    /\ result = null

(* checkNeedsPermission(): DeviceOrientationEvent is defined and has the
   function requestPermission (iOS 13+) *)
checkNeedsPermission == orientationApi = "permission"

(* CarFinder's useState initial values *)
CarFinderInitial ==
    [savedLocation |-> null, mode |-> "set", useSimpleMode |-> FALSE,
     isSaving |-> FALSE]

(* useDeviceOrientation's useState initial values *)
OrientationInitial ==
    [heading |-> nullNumber, isAvailable |-> TRUE, isActive |-> FALSE,
     needsPermission |-> checkNeedsPermission, error |-> NO_ERROR]

NO_LISTENER == "null"

(* The components after construction, before any effect has run; what the
   browser holds is chosen by the specification. *)
ComponentInit ==
    /\ storageLog = <<>>
    /\ carFinder = CarFinderInitial
    /\ navPc = "idle"
    /\ mountPc = "pending"
    /\ clearedSince = FALSE
    /\ orientation = OrientationInitial
    /\ listenerRef = NO_LISTENER
    /\ eventListeners = {}
    /\ availabilityChecks = {}
    /\ worker = [state |-> "parsed", handled |-> 0]

(* A browser with the standard DeviceOrientationEvent, an empty localStorage
   and an empty CacheStorage *)
Init ==
    /\ HookInit
    /\ localStorage = {}
    /\ orientationApi = "standard"
    /\ caches = {}
    /\ ComponentInit

----------------------------------------------------------------------------
(* getBestReading *)

(* readings.reduce((best, current) =>
       current.accuracy < best.accuracy ? current : best) *)
RECURSIVE ReduceBest(_, _, _)
ReduceBest(rs, k, best) ==
    IF k > Len(rs) THEN best
    ELSE ReduceBest(rs, k + 1,
                    IF rs[k].accuracy < best.accuracy THEN rs[k] ELSE best)

(* BestReading with the reduction dropped: the last reading is returned. *)
BestReadingLast(rs) == rs[Len(rs)]

BestReading(rs) == ReduceBest(rs, 2, rs[1])

(* The code after the loop: rs is the array readings, err the error state
   when the loop is left. *)
GbrFinish(rs, err) ==
    /\ isLoading' = FALSE
    /\ gbrPc' = "done"
    /\ IF Len(rs) = 0
       THEN /\ error' = NO_READINGS
            /\ gbrResult' = null
            /\ UNCHANGED <<position, accuracy>>
       ELSE LET bestReading == BestReading(rs)
            IN  /\ position' = bestReading.coords
                /\ accuracy' = bestReading.accuracy
                /\ gbrResult' = [coords |-> bestReading.coords,
                                 accuracy |-> bestReading.accuracy]
                /\ error' = err

(* GbrLoop without the await: every remaining request is issued at once. *)
GbrLoopNoAwait(n, k, rs, log, err, loading) ==
    /\ i' = k
    /\ readings' = rs
    /\ IF k < n
       THEN /\ requestLog' = log \o [j \in 1..(n - k) |->
                                       [at |-> now, outcome |-> Pending]]
            /\ gbrPc' = "await"
            /\ error' = err
            /\ isLoading' = loading
            /\ UNCHANGED <<position, accuracy, gbrResult>>
       ELSE /\ requestLog' = log
            /\ GbrFinish(rs, err)

(* The head of the for loop, entered with the counter at k: the next
   request is issued, or the loop is left.  log is the device's request log,
   err and loading the error and isLoading states at this point. *)
GbrLoop(n, k, rs, log, err, loading) ==
    /\ i' = k
    /\ readings' = rs
    /\ IF k < n
       THEN /\ requestLog' = Request(log, now)
            /\ gbrPc' = "await"
            /\ error' = err
            /\ isLoading' = loading
            /\ UNCHANGED <<position, accuracy, gbrResult>>
       ELSE /\ requestLog' = log
            /\ GbrFinish(rs, err)

(* getBestReading(n) is called, and runs to its first await. *)
GbrStartStep(n) ==
    /\ gbrPc \in {"idle", "done"}
    /\ numSamples' = n
    /\ IF ~geoSupported
       THEN /\ error' = NOT_SUPPORTED
            /\ gbrResult' = null
            /\ gbrPc' = "done"
            /\ UNCHANGED <<position, accuracy, isLoading, i, readings,
                           requestLog>>
       ELSE GbrLoop(n, 0, <<>>, <<>>, NO_ERROR, TRUE)
    /\ UNCHANGED <<geoSupported, gcpPc, isTracking, trackingVars, timers, now>>

GbrStart(n) ==
    /\ GbrStartStep(n)
    /\ UNCHANGED appVars

(* The device answers the outstanding request with a position. *)
GbrSampleSuccessStep(lat, acc) ==
    /\ gbrPc = "await"
    /\ \E k \in Outstanding :
          LET pos == Fix(lat, acc, now)
              rs == Append(readings, [coords |-> pos.coords,
                                      accuracy |-> pos.accuracy,
                                      timestamp |-> pos.timestamp])
              log == Resolve(requestLog, k, Delivered(pos))
          IN  IF i < numSamples - 1
              THEN /\ timers' = timers \cup {now + SAMPLE_DELAY_MS}
                   /\ gbrPc' = "delay"
                   /\ readings' = rs
                   /\ requestLog' = log
                   /\ UNCHANGED <<hookState, i, gbrResult>>
              ELSE /\ GbrLoop(numSamples, i + 1, rs, log, error, isLoading)
                   /\ UNCHANGED <<isTracking, timers>>
    /\ UNCHANGED <<geoSupported, gcpPc, trackingVars, numSamples, now>>

GbrSampleSuccess(lat, acc) ==
    /\ GbrSampleSuccessStep(lat, acc)
    /\ UNCHANGED appVars

(* GbrSampleFailure with the try around the whole loop: the first failed
   sample ends the call. *)
GbrSampleFailureAborts(code) ==
    /\ gbrPc = "await"
    /\ \E k \in Outstanding :
          /\ requestLog' = Resolve(requestLog, k, Failed)
          /\ GbrFinish(<<>>, error)
    /\ UNCHANGED <<geoSupported, gcpPc, appVars, isTracking, trackingVars, numSamples, i,
                   readings, timers, now>>

(* The device answers the outstanding request with an error: the catch
   block logs it, and the loop goes on. *)
GbrSampleFailureStep(code) ==
    /\ gbrPc = "await"
    /\ \E k \in Outstanding :
          GbrLoop(numSamples, i + 1, readings,
                  Resolve(requestLog, k, Failed), error, isLoading)
    /\ UNCHANGED <<geoSupported, gcpPc, isTracking, trackingVars, numSamples,
                   timers, now>>

GbrSampleFailure(code) ==
    /\ GbrSampleFailureStep(code)
    /\ UNCHANGED appVars

(* The timer of the delay between two readings fires. *)
GbrDelayElapsed ==
    /\ gbrPc = "delay"
    /\ \E t \in timers :
          /\ t <= now
          /\ timers' = timers \ {t}
    /\ GbrLoop(numSamples, i + 1, readings, requestLog, error, isLoading)
    /\ UNCHANGED <<geoSupported, gcpPc, appVars, isTracking, trackingVars, numSamples, now>>

(* Time passes. *)
Tick ==
    /\ now < MaxNow
    /\ now' = now + TickMs
    /\ UNCHANGED <<geoSupported, gcpPc, appVars, hookState, trackingVars, gbrPc, numSamples,
                   i, readings, gbrResult, requestLog, timers>>

NextSampling ==
    \/ \E n \in 0..MaxSamples : GbrStart(n)
    \/ \E lat \in Lats, acc \in SampleAccs : GbrSampleSuccess(lat, acc)
    \/ \E code \in ErrorCodes : GbrSampleFailure(code)
    \/ GbrDelayElapsed
    \/ Tick

SpecSampling == Init /\ [][NextSampling]_vars

----------------------------------------------------------------------------
(* Continuous tracking *)

(* The accumulator's start value: above every accuracy the device reports *)
Infinity == 1 + CHOOSE a \in SampleAccs \cup WatchAccs :
                    \A b \in SampleAccs \cup WatchAccs : b <= a

MathMin(a, b) == IF b < a THEN b ELSE a

(* calculateDistance with the difference of the coordinates left signed. *)
calculateDistanceSigned(point1, point2) ==
    LET deltaLat == RSub(point2.latitude, point1.latitude)
        deltaLong == RSub(point2.longitude, point1.longitude)
    IN  IF deltaLong[1] = 0 THEN deltaLat ELSE deltaLong

(* calculateDistance for two positions on one meridian: deltaLong is 0, a
   is sin^2(deltaLat / 2), c is |deltaLat| in radians, and
   EARTH_RADIUS_METERS * c is the difference of the latitudes in
   arc-metres. For two positions on the equator that differ in longitude,
   a is sin^2(deltaLong / 2) and the distance is the difference of the
   longitudes in arc-metres. *)
calculateDistance(point1, point2) ==
    LET deltaLat == RSub(point2.latitude, point1.latitude)
        deltaLong == RSub(point2.longitude, point1.longitude)
    IN  IF deltaLong[1] = 0 THEN RAbs(deltaLat) ELSE RAbs(deltaLong)

(* SmoothLoop with the weight inverted: a reading weighs its accuracy. *)
RECURSIVE SmoothLoopInverted(_, _, _, _, _, _)
SmoothLoopInverted(buffer, k, totalWeight, weightedLat, weightedLng, bestAccuracy) ==
    IF k > Len(buffer)
    THEN [coords |-> [latitude |-> RDiv(weightedLat, totalWeight),
                      longitude |-> RDiv(weightedLng, totalWeight)],
          accuracy |-> bestAccuracy]
    ELSE LET reading == buffer[k]
             weight == Num(reading.accuracy)
         IN  SmoothLoopInverted(buffer, k + 1,
                        RAdd(totalWeight, weight),
                        RAdd(weightedLat, RMul(reading.coords.latitude, weight)),
                        RAdd(weightedLng, RMul(reading.coords.longitude, weight)),
                        MathMin(bestAccuracy, reading.accuracy))

(* The for loop of calculateSmoothedPosition, at element k of the buffer *)
RECURSIVE SmoothLoop(_, _, _, _, _, _)
SmoothLoop(buffer, k, totalWeight, weightedLat, weightedLng, bestAccuracy) ==
    IF k > Len(buffer)
    THEN [coords |-> [latitude |-> RDiv(weightedLat, totalWeight),
                      longitude |-> RDiv(weightedLng, totalWeight)],
          accuracy |-> bestAccuracy]
    ELSE LET reading == buffer[k]
             weight == RDiv(Num(1), Num(reading.accuracy))
         IN  SmoothLoop(buffer, k + 1,
                        RAdd(totalWeight, weight),
                        RAdd(weightedLat, RMul(reading.coords.latitude, weight)),
                        RAdd(weightedLng, RMul(reading.coords.longitude, weight)),
                        MathMin(bestAccuracy, reading.accuracy))

calculateSmoothedPosition(buffer) ==
    IF Len(buffer) = 0 THEN null
    ELSE SmoothLoop(buffer, 1, Num(0), Num(0), Num(0), Infinity)

(* PushReading with pop() for shift(): the newest reading is dropped. *)
PushReadingPop(buffer, newReading) ==
    LET pushed == Append(buffer, newReading)
    IN  IF Len(pushed) > POSITION_BUFFER_SIZE
        THEN SubSeq(pushed, 1, Len(pushed) - 1)
        ELSE pushed

(* positionBufferRef.current.push(newReading), and shift() when the buffer
   is longer than POSITION_BUFFER_SIZE *)
PushReading(buffer, newReading) ==
    LET pushed == Append(buffer, newReading)
    IN  IF Len(pushed) > POSITION_BUFFER_SIZE THEN Tail(pushed) ELSE pushed

(* ShouldUpdate without the gate: every smoothed position is reported. *)
ShouldUpdateAlways(lastPos, smoothed, movementThreshold) == TRUE

(* ShouldUpdate with >= for >. *)
ShouldUpdateNonStrict(lastPos, smoothed, movementThreshold) ==
    \/ lastPos = null
    \/ ~RGt(movementThreshold, calculateDistance(lastPos, smoothed.coords))

(* Whether handleSuccess reports the smoothed position *)
ShouldUpdate(lastPos, smoothed, movementThreshold) ==
    \/ lastPos = null
    \/ RGt(calculateDistance(lastPos, smoothed.coords), movementThreshold)

handleSuccess(pos) ==
    LET newReading == [coords |-> pos.coords,
                       accuracy |-> pos.accuracy,
                       timestamp |-> pos.timestamp]
        buffer == PushReading(positionBufferRef, newReading)
        smoothed == calculateSmoothedPosition(buffer)
        lastPos == lastReportedPositionRef
        movementThreshold == RMul(Num(pos.accuracy), MOVEMENT_THRESHOLD_FACTOR)
    IN  /\ positionBufferRef' = buffer
        /\ IF smoothed = null
           THEN UNCHANGED <<position, accuracy, lastReportedPositionRef,
                            error, isLoading>>
           ELSE /\ IF ShouldUpdate(lastPos, smoothed, movementThreshold)
                   THEN /\ position' = smoothed.coords
                        /\ accuracy' = smoothed.accuracy
                        /\ lastReportedPositionRef' = smoothed.coords
                   ELSE UNCHANGED <<position, accuracy,
                                    lastReportedPositionRef>>
                /\ error' = NO_ERROR
                /\ isLoading' = FALSE

PERMISSION_DENIED_MESSAGE ==
    "Location access denied. Please enable location permissions in your browser settings."
POSITION_UNAVAILABLE_MESSAGE ==
    "Unable to determine your location. Please check that GPS is enabled."
TIMEOUT_MESSAGE ==
    "Location request timed out. Please try again in an open area."
UNKNOWN_MESSAGE ==
    "An unknown error occurred while getting your location."

getErrorMessage(code) ==
    CASE code = 1 -> PERMISSION_DENIED_MESSAGE
      [] code = 2 -> POSITION_UNAVAILABLE_MESSAGE
      [] code = 3 -> TIMEOUT_MESSAGE
      [] OTHER -> UNKNOWN_MESSAGE

handleError(code) ==
    /\ error' = getErrorMessage(code)
    /\ isLoading' = FALSE

(* navigator.geolocation.clearWatch(id) *)
clearWatch(registered, id) == registered \ {id}

(* navigator.geolocation.watchPosition(handleSuccess, handleError, ...),
   which returns id *)
watchPosition(registered, id) == registered \cup {id}

(* WatchesKept without the clearWatch of the existing watch. *)
WatchesKeptAll == watches

(* The watches still registered when startTracking registers the new one *)
WatchesKept ==
    IF watchIdRef # nullNumber THEN clearWatch(watches, watchIdRef)
    ELSE watches

startTrackingStep ==
    /\ mounted
    /\ nextWatchId <= MaxWatches
    /\ IF ~geoSupported
       THEN /\ error' = NOT_SUPPORTED
            /\ UNCHANGED <<isLoading, isTracking, watchIdRef, watches,
                           nextWatchId>>
       ELSE /\ isLoading' = TRUE
            /\ isTracking' = TRUE
            /\ error' = NO_ERROR
            /\ watches' = watchPosition(WatchesKept, nextWatchId)
            /\ watchIdRef' = nextWatchId
            /\ nextWatchId' = nextWatchId + 1
    /\ UNCHANGED <<geoSupported, gcpPc, position, accuracy,
                   positionBufferRef, lastReportedPositionRef, deliveries,
                   mounted, samplingVars>>

startTracking ==
    /\ startTrackingStep
    /\ UNCHANGED appVars

(* stopTracking that forgets the watch without cancelling it. *)
stopTrackingKeepsWatch ==
    /\ mounted
    /\ watchIdRef' = nullNumber
    /\ isTracking' = FALSE
    /\ isLoading' = FALSE
    /\ UNCHANGED <<geoSupported, gcpPc, appVars, position, accuracy, error,
                   watches, positionBufferRef, lastReportedPositionRef,
                   nextWatchId, deliveries, mounted, samplingVars>>

stopTrackingStep ==
    /\ mounted
    /\ IF watchIdRef # nullNumber
       THEN /\ watches' = clearWatch(watches, watchIdRef)
            /\ watchIdRef' = nullNumber
       ELSE UNCHANGED <<watches, watchIdRef>>
    /\ isTracking' = FALSE
    /\ isLoading' = FALSE
    /\ UNCHANGED <<geoSupported, gcpPc, position, accuracy, error,
                   positionBufferRef, lastReportedPositionRef, nextWatchId,
                   deliveries, mounted, samplingVars>>

stopTracking ==
    /\ stopTrackingStep
    /\ UNCHANGED appVars

(* A registered watch delivers a position to its success callback. *)
WatchSuccess(lat, acc) ==
    /\ Len(deliveries) < MaxFixes
    /\ \E id \in watches :
          LET pos == Fix(lat, acc, now)
          IN  /\ handleSuccess(pos)
              /\ deliveries' = Append(deliveries, pos)
    /\ UNCHANGED <<geoSupported, gcpPc, appVars, isTracking, watchIdRef,
                   watches, nextWatchId, mounted, samplingVars>>

(* WatchError that gives tracking up on an error. *)
WatchErrorStops(code) ==
    /\ \E id \in watches :
          /\ handleError(code)
          /\ watches' = clearWatch(watches, id)
    /\ watchIdRef' = nullNumber
    /\ isTracking' = FALSE
    /\ UNCHANGED <<geoSupported, gcpPc, appVars, position, accuracy,
                   positionBufferRef, lastReportedPositionRef, nextWatchId,
                   deliveries, mounted, samplingVars>>

(* A registered watch delivers an error to its error callback. *)
WatchError(code) ==
    /\ \E id \in watches : handleError(code)
    /\ UNCHANGED <<geoSupported, gcpPc, appVars, position, accuracy,
                   isTracking, trackingVars, samplingVars>>

(* Unmount without the clearWatch of the cleanup. *)
UnmountNoCleanup ==
    /\ mounted
    /\ mounted' = FALSE
    /\ UNCHANGED <<geoSupported, gcpPc, appVars, hookState, watchIdRef,
                   watches, positionBufferRef, lastReportedPositionRef,
                   nextWatchId, deliveries, samplingVars>>

(* The cleanup of the hook's effect, run when the component unmounts *)
UnmountStep ==
    /\ mounted
    /\ mounted' = FALSE
    /\ IF watchIdRef # nullNumber
       THEN watches' = clearWatch(watches, watchIdRef)
       ELSE UNCHANGED watches
    /\ UNCHANGED <<geoSupported, gcpPc, hookState, watchIdRef,
                   positionBufferRef, lastReportedPositionRef, nextWatchId,
                   deliveries, samplingVars>>

Unmount ==
    /\ UnmountStep
    /\ UNCHANGED appVars

NextTracking ==
    \/ startTracking
    \/ stopTracking
    \/ \E lat \in Lats, acc \in WatchAccs : WatchSuccess(lat, acc)
    \/ \E code \in WatchErrorCodes : WatchError(code)

SpecTracking == Init /\ [][NextTracking]_vars

----------------------------------------------------------------------------
(* The hook over the life of its component: tracking with the cleanup of
   the unmount *)

LifecycleAccs == {10}      \* accuracies of the watch fixes in SpecLifecycle

NextLifecycle ==
    \/ startTracking
    \/ stopTracking
    \/ \E lat \in Lats, acc \in LifecycleAccs : WatchSuccess(lat, acc)
    \/ \E code \in WatchErrorCodes : WatchError(code)
    \/ Unmount

SpecLifecycle == Init /\ [][NextLifecycle]_vars

----------------------------------------------------------------------------
(* getCurrentPosition *)

(* getCurrentPosition() is called, and issues its request. *)
GcpStart ==
    /\ gcpPc = "idle"
    /\ IF ~geoSupported
       THEN /\ error' = NOT_SUPPORTED
            /\ UNCHANGED <<isLoading, gcpPc>>
       ELSE /\ isLoading' = TRUE
            /\ error' = NO_ERROR
            /\ gcpPc' = "await"
    /\ UNCHANGED <<geoSupported, appVars, position, accuracy, isTracking,
                   trackingVars, samplingVars>>

(* The device answers the request with a position. *)
GcpSuccess(lat, acc) ==
    /\ gcpPc = "await"
    /\ LET pos == Fix(lat, acc, now)
       IN  /\ position' = pos.coords
           /\ accuracy' = pos.accuracy
    /\ isLoading' = FALSE
    /\ gcpPc' = "idle"
    /\ UNCHANGED <<geoSupported, appVars, error, isTracking, trackingVars,
                   samplingVars>>

(* The device answers the request with an error. *)
GcpError(code) ==
    /\ gcpPc = "await"
    /\ handleError(code)
    /\ gcpPc' = "idle"
    /\ UNCHANGED <<geoSupported, appVars, position, accuracy, isTracking,
                   trackingVars, samplingVars>>

----------------------------------------------------------------------------
(* The one-shot calls next to startTracking and stopTracking *)

OneShotAccs == {5}         \* accuracies of the one-shot fixes in SpecOneShot
OneShotSampleLats == {0}   \* latitudes of getBestReading's samples there

NextOneShot ==
    \/ \E n \in 1..MaxSamples : GbrStart(n)
    \/ \E lat \in OneShotSampleLats, acc \in OneShotAccs :
          GbrSampleSuccess(lat, acc)
    \/ \E code \in WatchErrorCodes : GbrSampleFailure(code)
    \/ GbrDelayElapsed
    \/ Tick
    \/ GcpStart
    \/ \E lat \in Lats, acc \in OneShotAccs : GcpSuccess(lat, acc)
    \/ \E code \in WatchErrorCodes : GcpError(code)
    \/ startTracking
    \/ stopTracking

SpecOneShot == Init /\ [][NextOneShot]_vars

----------------------------------------------------------------------------
(* Tracking next to the one-shot calls: everything that sets position *)

NextPositions ==
    \/ startTracking
    \/ stopTracking
    \/ \E lat \in Lats, acc \in LifecycleAccs : WatchSuccess(lat, acc)
    \/ GcpStart
    \/ \E lat \in Lats, acc \in OneShotAccs : GcpSuccess(lat, acc)
    \/ \E code \in WatchErrorCodes : GcpError(code)
    \/ GbrStart(1)
    \/ \E lat \in Lats, acc \in OneShotAccs : GbrSampleSuccess(lat, acc)
    \/ \E code \in WatchErrorCodes : GbrSampleFailure(code)

SpecPositions == Init /\ [][NextPositions]_vars

----------------------------------------------------------------------------
(* The gps utilities: angles, distances and their display *)

MaxTurns == 3              \* headings reach this many full turns either way

FEET_PER_METER == <<82021, 25000>>     \* 3.28084
DISTANCE_THRESHOLD_FEET == 1000
directions == <<"N", "NE", "E", "SE", "S", "SW", "W", "NW">>

RLt(a, b) == a[1] * b[2] < b[1] * a[2]
REq(a, b) == a[1] * b[2] = b[1] * a[2]
Sign(a) == IF a[1] > 0 THEN 1 ELSE IF a[1] < 0 THEN 0 - 1 ELSE 0

(* Math.floor *)
MathFloor(a) ==
    IF a[1] >= 0 THEN a[1] \div a[2]
    ELSE 0 - ((0 - a[1] + a[2] - 1) \div a[2])

(* Math.round: the nearest integer, a half rounded up *)
MathRound(a) == MathFloor(RAdd(a, <<1, 2>>))

(* a % b of JavaScript for b > 0: the remainder has the sign of a *)
JsRem(a, b) ==
    LET n == a[1] * b[2]
        m == b[1] * a[2]
        r == IF n >= 0 THEN n % m ELSE 0 - ((0 - n) % m)
    IN  Norm(r, a[2] * b[2])

(* The double -2^63, which the exact numbers above do not reach, written
   <<n, d, e>> for n/d * 2^e. The doubles between -2^63 and -2^62 lie
   1024 apart, so the sum -2^63 + 360 rounds back to -2^63. *)
HugeNegative == <<0 - 1, 1, 63>>

(* heading + 360 *)
Add360(heading) ==
    IF heading = HugeNegative THEN HugeNegative
    ELSE RAdd(heading, Num(360))

(* What a call that never returns yields *)
NeverReturns == [returns |-> FALSE]

(* while (heading < 0) heading += 360: the loop never ends when an
   iteration leaves heading as it was. *)
RECURSIVE WhileNegativeAdd360(_)
WhileNegativeAdd360(heading) ==
    IF ~RLt(heading, Num(0)) THEN heading
    ELSE IF Add360(heading) = heading THEN NeverReturns
    ELSE WhileNegativeAdd360(Add360(heading))

normalizeHeading(heading) ==
    LET positive == WhileNegativeAdd360(heading)
    IN  IF positive = NeverReturns THEN NeverReturns
        ELSE JsRem(positive, Num(360))

(* calculateRelativeHeading with the difference reversed. *)
calculateRelativeHeadingReversed(bearing, deviceHeading) ==
    LET relative == RSub(deviceHeading, bearing)
    IN  normalizeHeading(relative)

calculateRelativeHeading(bearing, deviceHeading) ==
    LET relative == RSub(bearing, deviceHeading)
    IN  normalizeHeading(relative)

(* toDegrees(Math.atan2(x, y)) where x or y is 0, from the signs of x and
   y: atan2(0, y) is 0 for y >= 0 and pi for y < 0, atan2(x, 0) is pi/2
   for x > 0 and -pi/2 for x < 0 *)
Atan2Degrees(x, y) ==
    CASE x = 0 /\ y >= 0 -> Num(0)
      [] x = 0 /\ y < 0 -> Num(180)
      [] x > 0 /\ y = 0 -> Num(90)
      [] x < 0 /\ y = 0 -> Num(0 - 90)

(* calculateBearing for two positions on one meridian (deltaLong is 0, so
   x is 0 and y is sin(lat2 - lat1)) or on the equator (y is 0 and x is
   sin(deltaLong)); x and y stand for the signs of these values, which
   are the signs of the differences. *)
calculateBearing(from, to) ==
    LET deltaLat == RSub(to.latitude, from.latitude)
        deltaLong == RSub(to.longitude, from.longitude)
        x == Sign(deltaLong)
        y == IF Sign(deltaLong) = 0 THEN Sign(deltaLat) ELSE 0
        bearing == Atan2Degrees(x, y)
    IN  JsRem(RAdd(bearing, Num(360)), Num(360))

(* null, for the values that are exact numbers or null *)
noNumber == <<>>

(* arrowRotation of CarFinder; compassHeading ?? 0 *)
arrowRotation(bearingToCar, useSimpleMode, compassHeading) ==
    IF bearingToCar # noNumber
    THEN IF useSimpleMode
         THEN bearingToCar
         ELSE calculateRelativeHeading(
                  bearingToCar,
                  IF compassHeading = noNumber THEN Num(0)
                  ELSE compassHeading)
    ELSE Num(0)

(* getCardinalDirection with Math.floor for Math.round. *)
getCardinalDirectionFloor(bearing) ==
    LET index == MathFloor(RDiv(bearing, Num(45))) % 8
    IN  directions[index + 1]

(* getCardinalDirection with the nearest multiple of 90 for that of 45. *)
getCardinalDirectionQuadrant(bearing) ==
    LET index == (2 * MathRound(RDiv(bearing, Num(90)))) % 8
    IN  directions[index + 1]

getCardinalDirection(bearing) ==
    LET index == MathRound(RDiv(bearing, Num(45))) % 8
    IN  directions[index + 1]

Pad3(k) ==
    IF k < 10 THEN "00" \o ToString(k)
    ELSE IF k < 100 THEN "0" \o ToString(k)
    ELSE ToString(k)

(* Number.prototype.toLocaleString() of a whole number >= 0 in the en-US
   locale: decimal digits in groups of three *)
RECURSIVE toLocaleString(_)
toLocaleString(n) ==
    IF n < 1000 THEN ToString(n)
    ELSE toLocaleString(n \div 1000) \o "," \o Pad3(n % 1000)

(* formatDistance with metres rounded to the nearest metre. *)
formatDistanceRoundToMeter(meters) ==
    LET feet == RMul(meters, FEET_PER_METER)
    IN  IF RLt(feet, Num(DISTANCE_THRESHOLD_FEET))
        THEN [value |-> toLocaleString(MathRound(feet)), unit |-> "ft"]
        ELSE [value |-> toLocaleString(MathRound(meters)), unit |-> "m"]

formatDistance(meters) ==
    LET feet == RMul(meters, FEET_PER_METER)
    IN  IF RLt(feet, Num(DISTANCE_THRESHOLD_FEET))
        THEN [value |-> toLocaleString(MathRound(feet)), unit |-> "ft"]
        ELSE LET roundedMeters == MathRound(RDiv(meters, Num(10))) * 10
             IN  [value |-> toLocaleString(roundedMeters), unit |-> "m"]

(* The arguments the utilities are called with *)

(* Headings in steps of 22.5 degrees, and half a degree either side *)
HeadingInputs ==
    {Norm(45 * k + j, 2) : k \in (0 - 16 * MaxTurns)..(16 * MaxTurns),
                           j \in {0 - 1, 0, 1}}
(* Bearings like those calculateBearing returns *)
BearingInputs ==
    {b \in HeadingInputs : ~RLt(b, Num(0)) /\ RLt(b, Num(360))}
RelativeBearingInputs == {Norm(45 * k, 2) : k \in (0 - 16)..32}
CompassInputs == {Norm(45 * k, 2) : k \in 0..15}
ArrowCompassInputs == {Num(0), Num(90), <<45, 2>>, <<719, 2>>}
(* A number that may be null *)
Nullable(isNull, value) == IF isNull THEN noNumber ELSE value
CardinalInputs == {Norm(k, 2) : k \in 0..719}
MeterInputs ==
    {Num(k) : k \in 0..400} \cup {Norm(k, 10) : k \in 3040..3060}
(* Positions on the meridian of longitude 0 and on the equator *)
MeridianPoints ==
    {[latitude |-> Num(lat), longitude |-> Num(Lng)] :
        lat \in {0 - 10, 0, 10, 25}}
EquatorPoints ==
    {[latitude |-> Num(0), longitude |-> Num(lng)] :
        lng \in {0 - 25, 0, 10}}
PointPairs ==
    (MeridianPoints \X MeridianPoints) \cup (EquatorPoints \X EquatorPoints)

UtilityFrame ==
    UNCHANGED <<geoSupported, gcpPc, hookState, trackingVars, samplingVars,
                storageVars, carFinderVars, orientationVars, workerVars>>

CallNormalizeHeading(heading) ==
    /\ call.op = "none"
    /\ call' = [op |-> "normalizeHeading", heading |-> heading]
    /\ result' = normalizeHeading(heading)
    /\ UtilityFrame

CallRelativeHeading(bearing, deviceHeading) ==
    /\ call.op = "none"
    /\ call' = [op |-> "calculateRelativeHeading", bearing |-> bearing,
                deviceHeading |-> deviceHeading]
    /\ result' = calculateRelativeHeading(bearing, deviceHeading)
    /\ UtilityFrame

CallBearing(from, to) ==
    /\ call.op = "none"
    /\ call' = [op |-> "calculateBearing", from |-> from, to |-> to]
    /\ result' = calculateBearing(from, to)
    /\ UtilityFrame

CallArrowRotation(bearingToCar, useSimpleMode, compassHeading) ==
    /\ call.op = "none"
    /\ call' = [op |-> "arrowRotation", bearingToCar |-> bearingToCar,
                useSimpleMode |-> useSimpleMode,
                compassHeading |-> compassHeading]
    /\ result' = arrowRotation(bearingToCar, useSimpleMode, compassHeading)
    /\ UtilityFrame

CallCardinalDirection(bearing) ==
    /\ call.op = "none"
    /\ call' = [op |-> "getCardinalDirection", bearing |-> bearing]
    /\ result' = getCardinalDirection(bearing)
    /\ UtilityFrame

CallFormatDistance(meters) ==
    /\ call.op = "none"
    /\ call' = [op |-> "formatDistance", meters |-> meters]
    /\ result' = formatDistance(meters)
    /\ UtilityFrame

CallDistance(point1, point2) ==
    /\ call.op = "none"
    /\ call' = [op |-> "calculateDistance", point1 |-> point1,
                point2 |-> point2]
    /\ result' = calculateDistance(point1, point2)
    /\ UtilityFrame

(* The call returns. *)
Return ==
    /\ call.op # "none"
    /\ call' = [op |-> "none"]
    /\ result' = null
    /\ UtilityFrame

NextGeometry ==
    \/ \E heading \in HeadingInputs : CallNormalizeHeading(heading)
    \/ CallNormalizeHeading(HugeNegative)
    \/ \E bearing \in RelativeBearingInputs, deviceHeading \in CompassInputs :
          CallRelativeHeading(bearing, deviceHeading)
    \/ \E pair \in PointPairs : CallBearing(pair[1], pair[2])
    \/ \E bearingToCar \in BearingInputs, noBearing \in BOOLEAN,
          useSimpleMode \in BOOLEAN,
          compassHeading \in ArrowCompassInputs, noHeading \in BOOLEAN :
          CallArrowRotation(Nullable(noBearing, bearingToCar), useSimpleMode,
                            Nullable(noHeading, compassHeading))
    \/ \E bearing \in CardinalInputs : CallCardinalDirection(bearing)
    \/ \E meters \in MeterInputs : CallFormatDistance(meters)
    \/ \E pair \in PointPairs : CallDistance(pair[1], pair[2])
    \/ Return

SpecGeometry == Init /\ [][NextGeometry]_vars

----------------------------------------------------------------------------
(* The persistence layer: saveCarLocation, getCarLocation, clearCarLocation *)

MaxStorageOps == 3     \* saveCarLocation and clearCarLocation calls logged

STORAGE_KEY == "carfinder_saved_location"

(* A text is a sequence of tokens: the punctuation marks and digits of JSON,
   one character each, and the quoted property names, one token each. *)
Digits == <<"0", "1", "2", "3", "4", "5", "6", "7", "8", "9">>
PropertyNames == {"latitude", "longitude", "timestamp", "accuracy"}

IsDigit(c) == \E d \in 1..10 : Digits[d] = c
DigitValue(c) == (CHOOSE d \in 1..10 : Digits[d] = c) - 1

RECURSIVE DigitsOf(_)
DigitsOf(n) ==
    IF n < 10 THEN <<Digits[n + 1]>>
    ELSE Append(DigitsOf(n \div 10), Digits[(n % 10) + 1])

(* The JSON text of a number; the numbers saved are whole. *)
NumberToText(x) ==
    IF x[1] < 0 THEN <<"-">> \o DigitsOf(0 - x[1]) ELSE DigitsOf(x[1])

Member(name, value) == <<name, ":">> \o NumberToText(value)

(* JSON.stringify(location) of a SavedLocation, its properties in the
   order of the object literal *)
JSONStringify(location) ==
    <<"{">> \o Member("latitude", location.latitude)
    \o <<",">> \o Member("longitude", location.longitude)
    \o <<",">> \o Member("timestamp", location.timestamp)
    \o <<",">> \o Member("accuracy", location.accuracy)
    \o <<"}">>

Throws == [throws |-> TRUE]
Parsed(value) == [throws |-> FALSE, value |-> value]

RECURSIVE ParseDigits(_, _, _)
ParseDigits(text, k, value) ==
    IF k <= Len(text) /\ IsDigit(text[k])
    THEN ParseDigits(text, k + 1, 10 * value + DigitValue(text[k]))
    ELSE [next |-> k, value |-> value]

(* A JSON number at position k: an optional minus sign and digits, without
   a leading zero before another digit *)
ParseNumber(text, k) ==
    LET negative == k <= Len(text) /\ text[k] = "-"
        start == IF negative THEN k + 1 ELSE k
    IN  IF start > Len(text) \/ ~IsDigit(text[start])
        THEN [ok |-> FALSE]
        ELSE LET digits == ParseDigits(text, start, 0)
             IN  IF text[start] = "0" /\ digits.next > start + 1
                 THEN [ok |-> FALSE]
                 ELSE [ok |-> TRUE, next |-> digits.next,
                       value |-> Num(IF negative THEN 0 - digits.value
                                     ELSE digits.value)]

(* The members of a JSON object from position k on, object holding the
   members read so far *)
RECURSIVE ParseMembers(_, _, _)
ParseMembers(text, k, object) ==
    IF k + 2 <= Len(text) /\ text[k] \in PropertyNames /\ text[k + 1] = ":"
    THEN LET number == ParseNumber(text, k + 2)
         IN  IF ~number.ok \/ number.next > Len(text)
             THEN Throws
             ELSE LET extended ==
                          [name \in DOMAIN object \cup {text[k]} |->
                              IF name = text[k] THEN number.value
                              ELSE object[name]]
                      next == number.next
                  IN  IF text[next] = "}"
                      THEN IF next = Len(text) THEN Parsed(extended)
                           ELSE Throws
                      ELSE IF text[next] = ","
                           THEN ParseMembers(text, next + 1, extended)
                           ELSE Throws
    ELSE Throws

(* JSON.parse(text) for the texts of objects with number members; any other
   text over these tokens makes it throw a SyntaxError. *)
JSONParse(text) ==
    IF Len(text) >= 2 /\ text[1] = "{"
    THEN IF text[2] = "}"
         THEN IF Len(text) = 2 THEN Parsed([name \in {} |-> Num(0)])
              ELSE Throws
         ELSE ParseMembers(text, 2, [name \in {} |-> Num(0)])
    ELSE Throws

(* localStorage.getItem(key) !== null, and the text it returns then *)
hasItem(key) == \E entry \in localStorage : entry[1] = key
getItem(key) == (CHOOSE entry \in localStorage : entry[1] = key)[2]

(* localStorage.setItem(key, text) *)
setItem(storage, key, text) ==
    {entry \in storage : entry[1] # key} \cup {<<key, text>>}

(* removeItem that removes nothing. *)
removeItemKeeps(storage, key) == storage

(* localStorage.removeItem(key) *)
removeItem(storage, key) == {entry \in storage : entry[1] # key}

(* getCarLocation that hands the stored text on without parsing it. *)
getCarLocationUnparsed ==
    IF hasItem(STORAGE_KEY) /\ getItem(STORAGE_KEY) # <<>>
    THEN [unparsed |-> getItem(STORAGE_KEY)]
    ELSE null

(* getCarLocation(): data ? JSON.parse(data) : null, and null when
   JSON.parse throws *)
getCarLocation ==
    IF hasItem(STORAGE_KEY) /\ getItem(STORAGE_KEY) # <<>>
    THEN LET parsed == JSONParse(getItem(STORAGE_KEY))
         IN  IF parsed.throws THEN null ELSE parsed.value
    ELSE null

(* saveCarLocation(location); setItemThrows says whether
   localStorage.setItem throws (storage full or disabled). *)
saveCarLocation(location, setItemThrows) ==
    localStorage' =
        IF setItemThrows THEN localStorage
        ELSE setItem(localStorage, STORAGE_KEY, JSONStringify(location))

(* What saveCarLocation returns: true from the try block, false from the
   catch block *)
saveCarLocationReturns(setItemThrows) == IF setItemThrows THEN FALSE ELSE TRUE

(* clearCarLocation() *)
clearCarLocation == localStorage' = removeItem(localStorage, STORAGE_KEY)

(* The locations passed to saveCarLocation *)
StorageLocations ==
    {[latitude |-> Num(lat), longitude |-> Num(Lng),
      timestamp |-> Num(at), accuracy |-> Num(5)] :
        lat \in {0 - 25, 10}, at \in {0, 1200}}

(* Texts that are not JSON: a record cut short, a member without its value,
   the empty text *)
DamagedTexts ==
    {<<"{", "latitude", ":", "1", "0", ",">>,
     <<"{", "latitude", ":", "}">>,
     <<>>}

StorageFrame ==
    UNCHANGED <<geoSupported, gcpPc, hookState, trackingVars, samplingVars,
                utilityVars, carFinderVars, orientationVars, workerVars>>

(* saveCarLocation(location) is called, and the call is logged with what
   it returned. *)
SaveCarLocation(location, setItemThrows) ==
    /\ Len(storageLog) < MaxStorageOps
    /\ saveCarLocation(location, setItemThrows)
    /\ storageLog' =
          Append(storageLog,
                 [op |-> "save", location |-> location,
                  setItemThrows |-> setItemThrows,
                  returned |-> saveCarLocationReturns(setItemThrows)])
    /\ StorageFrame

(* clearCarLocation() is called, and the call is logged. *)
ClearCarLocation ==
    /\ Len(storageLog) < MaxStorageOps
    /\ clearCarLocation
    /\ storageLog' =
          Append(storageLog,
                 [op |-> "clear", location |-> null,
                  setItemThrows |-> FALSE, returned |-> TRUE])
    /\ StorageFrame

----------------------------------------------------------------------------
(* useDeviceOrientation *)

COMPASS_CHECK_MS == 2000
DEVICE_ORIENTATION == "deviceorientation"
HANDLE_ORIENTATION == "handleOrientation"

COMPASS_DENIED ==
    "Compass permission was denied. Simple mode will be used instead."
COMPASS_FAILED ==
    "Unable to access compass. Simple mode will be used instead."
ORIENTATION_NOT_SUPPORTED ==
    "Device orientation is not supported by your browser."

(* window.screen?.orientation?.angle || 0, for a device held upright *)
ScreenOrientation == 0

(* event.webkitCompassHeading when it is defined *)
undefined == 0 - 2

(* The compassHeading that handleOrientation reads from an event *)
CompassHeadingOf(event) ==
    IF event.webkitCompassHeading # undefined
    THEN event.webkitCompassHeading
    ELSE IF event.alpha # nullNumber
         THEN ((360 - event.alpha) + ScreenOrientation) % 360
         ELSE nullNumber

(* handleOrientation(event), on the hook's state *)
handleOrientation(state, event) ==
    LET compassHeading == CompassHeadingOf(event)
    IN  IF compassHeading # nullNumber
        THEN [state EXCEPT !.heading = compassHeading,
                           !.isAvailable = TRUE,
                           !.error = NO_ERROR]
        ELSE [state EXCEPT !.isAvailable = FALSE]

(* requestPermission() once DeviceOrientationEvent.requestPermission() has
   answered "granted" or "denied", or has thrown *)
requestPermission(state, answer) ==
    IF answer = "granted"
    THEN [state EXCEPT !.needsPermission = FALSE, !.error = NO_ERROR]
    ELSE [state EXCEPT !.error = IF answer = "denied" THEN COMPASS_DENIED
                                 ELSE COMPASS_FAILED,
                       !.isAvailable = FALSE]

(* An event listener is one registration: the same type and callback with
   another capture setting is another listener. *)
Listener(type, callback, capture) ==
    [type |-> type, callback |-> callback, capture |-> capture]

(* window.addEventListener(type, callback, capture) *)
addEventListener(listeners, type, callback, capture) ==
    listeners \cup {Listener(type, callback, capture)}

(* window.removeEventListener(type, callback, capture); capture is false
   when the third argument is left out. *)
removeEventListener(listeners, type, callback, capture) ==
    listeners \ {Listener(type, callback, capture)}

(* The state that startListening() sets *)
startListeningState(state) ==
    IF orientationApi = "undefined"
    THEN [state EXCEPT !.isAvailable = FALSE,
                       !.error = ORIENTATION_NOT_SUPPORTED]
    ELSE [state EXCEPT !.isActive = TRUE]

(* startListening(), on the ref, the window and the timers; heading is the
   state the callback was created with. *)
startListening(closureHeading) ==
    IF orientationApi = "undefined"
    THEN UNCHANGED <<listenerRef, eventListeners, availabilityChecks>>
    ELSE /\ eventListeners' =
               addEventListener(
                   IF listenerRef # NO_LISTENER
                   THEN removeEventListener(eventListeners,
                            DEVICE_ORIENTATION, listenerRef, FALSE)
                   ELSE eventListeners,
                   DEVICE_ORIENTATION, HANDLE_ORIENTATION, TRUE)
         /\ listenerRef' = HANDLE_ORIENTATION
         /\ availabilityChecks' = availabilityChecks \cup
               {[at |-> now + COMPASS_CHECK_MS, heading |-> closureHeading]}

stopListeningState(state) == [state EXCEPT !.isActive = FALSE]

(* stopListening(), on the ref and the window *)
stopListening ==
    /\ IF listenerRef # NO_LISTENER
       THEN /\ eventListeners' =
                  removeEventListener(eventListeners, DEVICE_ORIENTATION,
                                      listenerRef, FALSE)
            /\ listenerRef' = NO_LISTENER
       ELSE UNCHANGED <<listenerRef, eventListeners>>
    /\ UNCHANGED availabilityChecks

----------------------------------------------------------------------------
(* CarFinder *)

(* autoSimpleMode with the effect left out. *)
autoSimpleModeNever(component, state) == component

(* The effect with the dependencies [isCompassAvailable, mode], run after a
   render in which one of them has changed: component and state are the
   values rendered. *)
autoSimpleMode(component, state) ==
    IF /\ \/ state.isAvailable # orientation.isAvailable
          \/ component.mode # carFinder.mode
       /\ ~state.isAvailable
       /\ component.mode = "find"
    THEN [component EXCEPT !.useSimpleMode = TRUE]
    ELSE component

(* The render after a handler has set the component's and the hook's state,
   with the effects it runs *)
Render(component, state) ==
    /\ orientation' = state
    /\ carFinder' = autoSimpleMode(component, state)

HookFrame ==
    UNCHANGED <<geoSupported, gcpPc, hookState, trackingVars, samplingVars>>

(* handleStartNavigation() up to its end or to its await: component is what
   the caller has set so far. *)
handleStartNavigation(component) ==
    IF orientation.needsPermission
    THEN /\ navPc' = "prompt"
         /\ Render(component, orientation)
         /\ HookFrame
         /\ UNCHANGED <<listenerRef, eventListeners, availabilityChecks>>
    ELSE /\ navPc' = navPc
         /\ startTrackingStep
         /\ IF orientation.isAvailable
            THEN /\ startListening(orientation.heading)
                 /\ Render([component EXCEPT !.mode = "find"],
                           startListeningState(orientation))
            ELSE /\ UNCHANGED <<listenerRef, eventListeners,
                                availabilityChecks>>
                 /\ Render([component EXCEPT !.mode = "find"], orientation)

(* The mount effect; action is the parameter of the deep link. *)
MountEffect(action) ==
    /\ mounted
    /\ mountPc = "pending"
    /\ mountPc' = "done"
    /\ LET stored == getCarLocation
       IN  IF stored # null
           THEN IF action = "find"
                THEN handleStartNavigation(
                         [carFinder EXCEPT !.savedLocation = stored])
                ELSE /\ Render([carFinder EXCEPT !.savedLocation = stored,
                                                 !.mode = "set"],
                               orientation)
                     /\ HookFrame
                     /\ UNCHANGED <<navPc, listenerRef, eventListeners,
                                    availabilityChecks>>
           ELSE /\ HookFrame
                /\ UNCHANGED <<carFinder, navPc, orientation, listenerRef,
                               eventListeners, availabilityChecks>>
    /\ UNCHANGED <<utilityVars, storageVars, clearedSince, orientationApi,
                   workerVars>>

(* "Find My Car" *)
HandleStartNavigation ==
    /\ mounted
    /\ mountPc = "done"
    /\ navPc = "idle"
    /\ carFinder.mode = "set"
    /\ carFinder.savedLocation # null
    /\ handleStartNavigation(carFinder)
    /\ UNCHANGED <<utilityVars, storageVars, mountPc, clearedSince,
                   orientationApi,
                   workerVars>>

(* The permission prompt is answered, and handleStartNavigation goes on
   with the values of the render it was created in: needsPermission was
   true there, so that startCompass is not called. *)
PermissionAnswered(answer) ==
    /\ mounted
    /\ navPc = "prompt"
    /\ navPc' = "idle"
    /\ startTrackingStep
    /\ Render([carFinder EXCEPT
                   !.useSimpleMode = IF answer = "granted" THEN @ ELSE TRUE,
                   !.mode = "find"],
              requestPermission(orientation, answer))
    /\ UNCHANGED <<utilityVars, storageVars, mountPc, clearedSince,
                   listenerRef,
                   eventListeners, availabilityChecks, orientationApi,
                   workerVars>>

(* "Back" *)
HandleBackToSet ==
    /\ mounted
    /\ carFinder.mode = "find"
    /\ stopTrackingStep
    /\ stopListening
    /\ Render([carFinder EXCEPT !.mode = "set"],
              stopListeningState(orientation))
    /\ UNCHANGED <<utilityVars, storageVars, navPc, mountPc, clearedSince,
                   orientationApi,
                   workerVars>>

(* "Clear Saved Location", shown while there is a saved location *)
HandleClearLocation ==
    /\ mounted
    /\ carFinder.savedLocation # null
    /\ clearCarLocation
    /\ stopTrackingStep
    /\ stopListening
    /\ Render([carFinder EXCEPT !.savedLocation = null, !.mode = "set"],
              stopListeningState(orientation))
    /\ clearedSince' = TRUE
    /\ UNCHANGED <<utilityVars, storageLog, navPc, mountPc, orientationApi,
                   workerVars>>

(* The toggle between compass and simple mode, shown with the arrow *)
HandleToggleMode ==
    /\ mounted
    /\ carFinder.mode = "find"
    /\ Render([carFinder EXCEPT !.useSimpleMode = ~@], orientation)
    /\ HookFrame
    /\ UNCHANGED <<utilityVars, storageVars, navPc, mountPc, clearedSince,
                   listenerRef,
                   eventListeners, availabilityChecks, orientationApi,
                   workerVars>>

(* handleSaveLocation() after its await, when getBestReading has resolved
   in this step: component is the state set so far. *)
saveContinuation(component, setItemThrows) ==
    IF gbrPc' = "done"
    THEN IF gbrResult' # null
         THEN LET location ==
                      [latitude |-> gbrResult'.coords.latitude,
                       longitude |-> gbrResult'.coords.longitude,
                       timestamp |-> Num(now),
                       accuracy |-> Num(gbrResult'.accuracy)]
                  saved == saveCarLocationReturns(setItemThrows)
              IN  /\ saveCarLocation(location, setItemThrows)
                  /\ carFinder' =
                        [component EXCEPT
                            !.isSaving = FALSE,
                            !.savedLocation = IF saved THEN location ELSE @]
         ELSE /\ carFinder' = [component EXCEPT !.isSaving = FALSE]
              /\ UNCHANGED localStorage
    ELSE /\ carFinder' = component
         /\ UNCHANGED localStorage

SavingFrame ==
    UNCHANGED <<utilityVars, storageLog, navPc, mountPc, orientationVars,
                workerVars>>

(* "Set Car Location" and "Update Location" *)
HandleSaveLocation(setItemThrows) ==
    /\ mounted
    /\ mountPc = "done"
    /\ carFinder.mode = "set"
    /\ ~carFinder.isSaving
    /\ ~isLoading
    /\ GbrStartStep(3)
    /\ saveContinuation([carFinder EXCEPT !.isSaving = TRUE], setItemThrows)
    /\ clearedSince' = FALSE
    /\ SavingFrame

(* A reading of handleSaveLocation's getBestReading arrives. *)
SaveSampleSuccess(lat, acc, setItemThrows) ==
    /\ carFinder.isSaving
    /\ GbrSampleSuccessStep(lat, acc)
    /\ saveContinuation(carFinder, setItemThrows)
    /\ UNCHANGED clearedSince
    /\ SavingFrame

(* A reading of handleSaveLocation's getBestReading fails. *)
SaveSampleFailure(code, setItemThrows) ==
    /\ carFinder.isSaving
    /\ GbrSampleFailureStep(code)
    /\ saveContinuation(carFinder, setItemThrows)
    /\ UNCHANGED clearedSince
    /\ SavingFrame

(* window dispatches a deviceorientation event to its listeners. *)
OrientationEvent(event) ==
    /\ mounted
    /\ \E listener \in eventListeners :
          /\ listener.type = DEVICE_ORIENTATION
          /\ listener.callback = HANDLE_ORIENTATION
    /\ Render(carFinder, handleOrientation(orientation, event))
    /\ HookFrame
    /\ UNCHANGED <<utilityVars, storageVars, navPc, mountPc, clearedSince,
                   listenerRef,
                   eventListeners, availabilityChecks, orientationApi,
                   workerVars>>

(* The timeout of a startListening call fires, and looks at the heading of
   the render the call was made in. *)
AvailabilityCheck ==
    /\ mounted
    /\ \E check \in availabilityChecks :
          /\ check.at <= now
          /\ availabilityChecks' = availabilityChecks \ {check}
          /\ Render(carFinder,
                    IF check.heading = nullNumber
                    THEN [orientation EXCEPT !.isAvailable = FALSE]
                    ELSE orientation)
    /\ HookFrame
    /\ UNCHANGED <<utilityVars, storageVars, navPc, mountPc, clearedSince,
                   listenerRef,
                   eventListeners, orientationApi, workerVars>>

(* CarFinder unmounts: the cleanups of both hooks run. *)
UnmountCarFinder ==
    /\ UnmountStep
    /\ eventListeners' =
          IF listenerRef # NO_LISTENER
          THEN removeEventListener(eventListeners, DEVICE_ORIENTATION,
                                   listenerRef, FALSE)
          ELSE eventListeners
    /\ UNCHANGED <<utilityVars, storageVars, carFinderVars, orientation,
                   listenerRef, availabilityChecks, orientationApi,
                   workerVars>>

(* The deviceorientation events of the device: alpha on Android, also
   webkitCompassHeading on iOS, neither without a compass *)
OrientationEvents ==
    {[webkitCompassHeading |-> undefined, alpha |-> 0],
     [webkitCompassHeading |-> undefined, alpha |-> 90],
     [webkitCompassHeading |-> 270, alpha |-> 90],
     [webkitCompassHeading |-> undefined, alpha |-> nullNumber]}

DeepLinks == {"none", "find"}
PermissionAnswers == {"granted", "denied", "throws"}

(* The record a session before this one has saved *)
StoredAtLoad ==
    JSONStringify([latitude |-> Num(10), longitude |-> Num(Lng),
                   timestamp |-> Num(0), accuracy |-> Num(5)])

(* The page is opened on a device with or without compass and permission
   prompt, with nothing or a saved record in localStorage. *)
InitCarFinder ==
    /\ HookInit
    /\ localStorage \in {{}, {<<STORAGE_KEY, StoredAtLoad>>}}
    /\ orientationApi \in {"undefined", "standard", "permission"}
    /\ caches = {}
    /\ ComponentInit

----------------------------------------------------------------------------
(* The persistence layer with the mount effect that reads it *)

(* What localStorage holds when the page is opened: nothing, or a text that
   is not the JSON of a record *)
InitStorage ==
    /\ HookInit
    /\ localStorage \in {{}} \cup {{<<STORAGE_KEY, text>>} : text \in DamagedTexts}
    /\ orientationApi = "standard"
    /\ caches = {}
    /\ ComponentInit

NextStorage ==
    \/ \E location \in StorageLocations, setItemThrows \in BOOLEAN :
          SaveCarLocation(location, setItemThrows)
    \/ ClearCarLocation
    \/ \E action \in DeepLinks : MountEffect(action)

SpecStorage == InitStorage /\ [][NextStorage]_vars

----------------------------------------------------------------------------
(* CarFinder in set mode: saving, clearing and starting navigation *)

SaveAccs == {5}
SaveLats == {10}

NextCarFinder ==
    \/ \E action \in DeepLinks : MountEffect(action)
    \/ \E setItemThrows \in BOOLEAN : HandleSaveLocation(setItemThrows)
    \/ \E lat \in SaveLats, acc \in SaveAccs, setItemThrows \in BOOLEAN :
          SaveSampleSuccess(lat, acc, setItemThrows)
    \/ \E code \in WatchErrorCodes, setItemThrows \in BOOLEAN :
          SaveSampleFailure(code, setItemThrows)
    \/ GbrDelayElapsed
    \/ Tick
    \/ HandleStartNavigation
    \/ \E answer \in PermissionAnswers : PermissionAnswered(answer)
    \/ HandleBackToSet
    \/ HandleClearLocation

SpecCarFinder == InitCarFinder /\ [][NextCarFinder]_vars

----------------------------------------------------------------------------
(* CarFinder in find mode: the compass and the simple mode *)

NextCompass ==
    \/ \E action \in DeepLinks : MountEffect(action)
    \/ HandleStartNavigation
    \/ \E answer \in PermissionAnswers : PermissionAnswered(answer)
    \/ HandleBackToSet
    \/ HandleClearLocation
    \/ HandleToggleMode
    \/ \E event \in OrientationEvents : OrientationEvent(event)
    \/ AvailabilityCheck
    \/ Tick
    \/ UnmountCarFinder

SpecCompass == InitCarFinder /\ [][NextCompass]_vars

----------------------------------------------------------------------------
(* The service worker *)

MaxRequests == 3       \* fetch and message events the worker handles

(* Names are sequences of the pieces the template literals put together,
   URLs are records of a host and a path. *)
CACHE_PREFIX == <<"car-finder-">>
CACHE_VERSION == "v1.1.0"
CACHE_NAME == CACHE_PREFIX \o <<CACHE_VERSION>>
TILES_CACHE_NAME == CACHE_PREFIX \o <<"tiles-">> \o <<CACHE_VERSION>>

(* The caches of the worker of version v1.0.0, and a cache of another
   script of the origin *)
PREVIOUS_CACHE_NAME == CACHE_PREFIX \o <<"v1.0.0">>
OTHER_CACHE_NAME == <<"workbox-", "precache">>

ORIGIN == "self.location.origin"
Url(host, path) == [host |-> host, path |-> path]

STATIC_ASSETS ==
    {Url(ORIGIN, "/"), Url(ORIGIN, "/index.html"),
     Url(ORIGIN, "/manifest.json"), Url(ORIGIN, "/icons/icon-192.png"),
     Url(ORIGIN, "/icons/icon-512.png")}

TILE_URL_PATTERNS == {"basemaps.cartocdn.com", "tile.openstreetmap.org"}

(* name.startsWith(prefix) *)
startsWith(name, prefix) ==
    /\ Len(name) >= Len(prefix)
    /\ SubSeq(name, 1, Len(prefix)) = prefix

(* isMapTile(url): the host holds one of the patterns *)
isMapTile(url) == url.host \in TILE_URL_PATTERNS

(* caches.keys() *)
cachesKeys(storage) == {cache.name : cache \in storage}

(* caches.open(name): the cache is created when it does not exist *)
cachesOpen(storage, name) ==
    IF name \in cachesKeys(storage) THEN storage
    ELSE storage \cup {[name |-> name, entries |-> {}]}

(* cache.put(url, response) for every url of urls, on the cache of that
   name *)
cachePut(storage, name, urls) ==
    {IF cache.name = name
     THEN [cache EXCEPT !.entries = @ \cup urls]
     ELSE cache : cache \in storage}

(* caches.delete(name) *)
cachesDelete(storage, names) ==
    {cache \in storage : cache.name \notin names}

(* The filter of the activate handler *)
ToDelete(cacheNames) ==
    {name \in cacheNames :
        startsWith(name, CACHE_PREFIX) /\ name # CACHE_NAME}

WorkerFrame ==
    UNCHANGED <<geoSupported, gcpPc, hookState, trackingVars, samplingVars,
                utilityVars, storageVars, carFinderVars, orientationVars>>

(* The install handler up to cache.addAll: caches.open(CACHE_NAME) *)
InstallOpen ==
    /\ worker.state = "parsed"
    /\ worker' = [worker EXCEPT !.state = "installing"]
    /\ caches' = cachesOpen(caches, CACHE_NAME)
    /\ WorkerFrame

(* cache.addAll(STATIC_ASSETS) has settled: skipWaiting() follows, or the
   catch that logs the error; the installation ends either way. *)
InstallAddAll(fails) ==
    /\ worker.state = "installing"
    /\ worker' = [worker EXCEPT !.state = "installed"]
    /\ caches' = IF fails \/ CACHE_NAME \notin cachesKeys(caches) THEN caches
                 ELSE cachePut(caches, CACHE_NAME, STATIC_ASSETS)
    /\ WorkerFrame

(* The activate handler *)
Activate ==
    /\ worker.state = "installed"
    /\ worker' = [worker EXCEPT !.state = "activated"]
    /\ caches' = cachesDelete(caches, ToDelete(cachesKeys(caches)))
    /\ WorkerFrame

(* The fetch handler for a GET request; ok says whether the network
   answers with an ok response. *)
Fetch(url, ok) ==
    /\ worker.state = "activated"
    /\ worker.handled < MaxRequests
    /\ worker' = [worker EXCEPT !.handled = @ + 1]
    /\ IF isMapTile(url)
       THEN LET opened == cachesOpen(caches, TILES_CACHE_NAME)
            IN  caches' = IF ok THEN cachePut(opened, TILES_CACHE_NAME, {url})
                          ELSE opened
       ELSE IF url.host # ORIGIN
            THEN UNCHANGED caches
            ELSE caches' =
                    IF ok
                    THEN cachePut(cachesOpen(caches, CACHE_NAME),
                                  CACHE_NAME, {url})
                    ELSE caches
    /\ WorkerFrame

(* The message handler for { type: 'CACHE_TILES' }, with
   precacheTilesAroundLocation run to its end: fetched are the tiles whose
   requests the network answers. *)
MessageCacheTiles(fetched) ==
    /\ worker.state # "parsed"
    /\ worker.handled < MaxRequests
    /\ worker' = [worker EXCEPT !.handled = @ + 1]
    /\ caches' = cachePut(cachesOpen(caches, TILES_CACHE_NAME),
                          TILES_CACHE_NAME, fetched)
    /\ WorkerFrame

TileUrls ==
    {Url("basemaps.cartocdn.com", "/dark_all/17/1/1.png"),
     Url("basemaps.cartocdn.com", "/dark_all/17/1/2.png")}

RequestUrls ==
    TileUrls \cup {Url(ORIGIN, "/index.html"),
                   Url("fonts.googleapis.com", "/css2")}

(* What CacheStorage holds when the worker is installed: the cache of the
   worker of version v1.0.0, a cache of another script, and the tiles of a
   registration of this version that has been unregistered since *)
CachesAtInstall ==
    SUBSET {[name |-> PREVIOUS_CACHE_NAME, entries |-> STATIC_ASSETS],
            [name |-> OTHER_CACHE_NAME,
             entries |-> {Url(ORIGIN, "/index.html")}],
            [name |-> TILES_CACHE_NAME, entries |-> TileUrls]}

InitWorker ==
    /\ HookInit
    /\ localStorage = {}
    /\ orientationApi = "standard"
    /\ caches \in CachesAtInstall
    /\ ComponentInit

NextWorker ==
    \/ InstallOpen
    \/ \E fails \in BOOLEAN : InstallAddAll(fails)
    \/ Activate
    \/ \E url \in RequestUrls, ok \in BOOLEAN : Fetch(url, ok)
    \/ \E fetched \in SUBSET TileUrls : MessageCacheTiles(fetched)

SpecWorker == InitWorker /\ [][NextWorker]_vars

----------------------------------------------------------------------------
(* Properties of getBestReading, stated on the device's request log *)

Successes == {k \in DOMAIN requestLog : requestLog[k].outcome.kind = "fix"}
Failures == {k \in DOMAIN requestLog : requestLog[k].outcome = Failed}
SampleOf(k) == requestLog[k].outcome.pos

(* C1: when getBestReading has resolved and some sample succeeded, the
   reading it returns has the smallest accuracy value of all successful
   samples, and its coordinates and accuracy are those of one and the same
   successful sample. *)
C1_BestReadingIsMostAccurate ==
    (gbrPc = "done" /\ Successes # {}) =>
        /\ gbrResult # null
        /\ \A k \in Successes : gbrResult.accuracy <= SampleOf(k).accuracy
        /\ \E k \in Successes :
              /\ SampleOf(k).accuracy = gbrResult.accuracy
              /\ SampleOf(k).coords = gbrResult.coords

(* The spec's example: samples with accuracies 20, 5, 15, at different
   places, and the reading with accuracy 5 returned. *)
C1_Witness ==
    /\ gbrPc = "done"
    /\ Len(requestLog) = 3
    /\ Successes = {1, 2, 3}
    /\ SampleOf(1).accuracy = 20 /\ SampleOf(1).coords = Coords(0)
    /\ SampleOf(2).accuracy = 5 /\ SampleOf(2).coords = Coords(10)
    /\ SampleOf(3).accuracy = 15 /\ SampleOf(3).coords = Coords(0)
    /\ gbrResult = [coords |-> Coords(10), accuracy |-> 5]

(* C2: when getBestReading has resolved (with geolocation present), it
   resolved with null exactly when every sample request failed, and the
   error state is the acquisition error exactly in that case; with at least
   one success it resolved with a reading and the error state is clear. *)
C2_NullIffAllSamplesFailed ==
    (gbrPc = "done" /\ geoSupported) =>
        /\ Failures \cup Successes = DOMAIN requestLog
        /\ (gbrResult = null) <=> (Successes = {})
        /\ (error = NO_READINGS) <=> (Successes = {})
        /\ (Successes # {}) => (error = NO_ERROR)

(* Failures before and after the one success. *)
C2_Witness ==
    /\ gbrPc = "done"
    /\ Len(requestLog) = 3
    /\ Failures = {1, 3}
    /\ Successes = {2}
    /\ gbrResult # null
    /\ error = NO_ERROR

(* C3: the requests of a call are serialized: only the request issued last
   can be outstanding (so never two at once, and a request is issued only
   after the one before it was answered), never more than numSamples are
   issued, and exactly numSamples have been issued and answered when the
   call resolves. *)
C3_RequestsSerialized ==
    /\ \A k \in Outstanding : k = Len(requestLog)
    /\ Cardinality(Outstanding) <= 1
    /\ geoSupported => Len(requestLog) <= numSamples
    /\ (gbrPc = "done" /\ geoSupported) =>
          (Len(requestLog) = numSamples /\ Outstanding = {})

(* The third request is outstanding, the first two answered. *)
C3_Witness ==
    /\ gbrPc = "await"
    /\ numSamples = 3
    /\ Len(requestLog) = 3
    /\ Outstanding = {3}
    /\ 1 \in Failures
    /\ 2 \in Successes

(* C4: between every two consecutive requests of a call the delay of
   SAMPLE_DELAY_MS elapses, whether the earlier one succeeded or failed,
   and the call never waits after its last request. *)
C4_DelayBetweenAllRequests ==
    /\ \A k \in 1..(Len(requestLog) - 1) :
          requestLog[k + 1].at >= requestLog[k].at + SAMPLE_DELAY_MS
    /\ (gbrPc = "delay") => (i < numSamples - 1)
    /\ (timers # {}) => (gbrPc = "delay")

----------------------------------------------------------------------------
(* Properties of continuous tracking, stated on the device's delivery log *)

Max(a, b) == IF a > b THEN a ELSE b

(* A step in which a watch delivers a fix, and the fix it delivers *)
IsDelivery == Len(deliveries') = Len(deliveries) + 1
NewFix == deliveries'[Len(deliveries')]

(* The last n elements of seq (all of them when it has fewer) *)
LastN(seq, n) == SubSeq(seq, Max(1, Len(seq) - n + 1), Len(seq))

(* C5: the smoothing buffer holds at most POSITION_BUFFER_SIZE fixes, and
   they are the most recently delivered fixes, in delivery order. *)
C5_BufferHoldsLatestFixes ==
    /\ Len(positionBufferRef) <= POSITION_BUFFER_SIZE
    /\ positionBufferRef = LastN(deliveries, POSITION_BUFFER_SIZE)

(* A sixth fix has been delivered and the first, which was at another
   place than the second, is gone from the buffer. *)
C5_Witness ==
    /\ Len(deliveries) = POSITION_BUFFER_SIZE + 1
    /\ deliveries[1].coords # deliveries[2].coords
    /\ Len(positionBufferRef) = POSITION_BUFFER_SIZE
    /\ positionBufferRef[1] = deliveries[2]
    /\ positionBufferRef[POSITION_BUFFER_SIZE] = deliveries[Len(deliveries)]

(* C6: a step of startTracking that registers a watch leaves the smoothing
   buffer empty. *)
C6_StartTrackingClearsBuffer ==
    [][(watchIdRef' # watchIdRef /\ watchIdRef' # nullNumber)
          => positionBufferRef' = <<>>]_vars

(* C7, as claimed: on a delivery with a last reported position, a raw fix
   within half its accuracy of the reported position leaves the reported
   position as it is, and a raw fix farther away changes it. *)
C7_GateOnRawFix ==
    [][(IsDelivery /\ position # null) =>
          LET raw == calculateDistance(position, NewFix.coords)
              threshold == RMul(Num(NewFix.accuracy), MOVEMENT_THRESHOLD_FACTOR)
          IN  IF RGt(raw, threshold)
              THEN position' # position
              ELSE position' = position]_vars

(* C7, amended: on a delivery with a last reported position, when the
   smoothed position of the buffer is within half the delivered fix's
   accuracy of the reported position, the reported position stays as it
   is; when it is farther away, the reported position becomes the smoothed
   position, another one than the last reported. *)
C7_GateOnSmoothedPosition ==
    [][(IsDelivery /\ lastReportedPositionRef # null) =>
          LET smoothed == calculateSmoothedPosition(positionBufferRef')
              moved == calculateDistance(lastReportedPositionRef,
                                         smoothed.coords)
              threshold == RMul(Num(NewFix.accuracy), MOVEMENT_THRESHOLD_FACTOR)
          IN  IF RGt(moved, threshold)
              THEN /\ position' = smoothed.coords
                   /\ smoothed.coords # lastReportedPositionRef
              ELSE position' = position]_vars

(* The reported position was first 0; four fixes at 10 were held back by
   the gate, and then a fix at 0 itself, the reported position, moved the
   reported position to 20/3. *)
C7_Witness ==
    /\ Len(deliveries) = 6
    /\ deliveries[1].coords = Coords(0)
    /\ \A k \in 2..5 : deliveries[k].coords = Coords(10)
                        /\ deliveries[k].accuracy = 20
    /\ deliveries[6].coords = Coords(0)
    /\ deliveries[6].accuracy = 10
    /\ position # null
    /\ position.latitude = <<20, 3>>

(* C8: on a delivery with a last reported position, the smoothed position
   (with its accuracy) replaces the reported one when its distance from the
   last reported position is strictly greater than half the accuracy of the
   fix just delivered, and otherwise position, accuracy and last reported
   position stay as they are; with no last reported position the smoothed
   position is reported whatever the distance. *)
C8_GateIsStrictOnReportedPosition ==
    [][IsDelivery =>
          LET smoothed == calculateSmoothedPosition(positionBufferRef')
              threshold == RMul(Num(NewFix.accuracy), MOVEMENT_THRESHOLD_FACTOR)
              replaced == /\ position' = smoothed.coords
                          /\ accuracy' = smoothed.accuracy
                          /\ lastReportedPositionRef' = smoothed.coords
              kept == UNCHANGED <<position, accuracy, lastReportedPositionRef>>
          IN  IF lastReportedPositionRef = null
              THEN replaced
              ELSE IF RGt(calculateDistance(lastReportedPositionRef,
                                            smoothed.coords), threshold)
                   THEN replaced
                   ELSE kept]_vars

(* The boundary: the smoothed position 5 is exactly half the accuracy 10
   away from the reported position 0, and the reported position is kept,
   with its accuracy 20, not the buffer's best, 10. *)
C8_Witness ==
    /\ Len(deliveries) = 5
    /\ deliveries[1] = Fix(0, 20, 0)
    /\ \A k \in 2..4 : deliveries[k] = Fix(10, 20, 0)
    /\ deliveries[5] = Fix(0, 10, 0)
    /\ calculateSmoothedPosition(positionBufferRef).coords.latitude = Num(5)
    /\ position = Coords(0)
    /\ accuracy = 20

(* The weighted mean, independently of the loop: with every weight
   1 / accuracy scaled by the product of the device's accuracies *)
RECURSIVE SetProduct(_)
SetProduct(S) ==
    IF S = {} THEN 1
    ELSE LET x == CHOOSE y \in S : TRUE IN x * SetProduct(S \ {x})

WeightScale == SetProduct(WatchAccs)

ScaledWeight(reading) == WeightScale \div reading.accuracy
ScaledLat(reading) ==
    (reading.coords.latitude[1] \div reading.coords.latitude[2])
        * ScaledWeight(reading)
ScaledLng(reading) ==
    (reading.coords.longitude[1] \div reading.coords.longitude[2])
        * ScaledWeight(reading)

RECURSIVE ScaledSums(_, _)
ScaledSums(buffer, k) ==
    IF k > Len(buffer) THEN [weight |-> 0, lat |-> 0, lng |-> 0]
    ELSE LET rest == ScaledSums(buffer, k + 1)
         IN  [weight |-> rest.weight + ScaledWeight(buffer[k]),
              lat |-> rest.lat + ScaledLat(buffer[k]),
              lng |-> rest.lng + ScaledLng(buffer[k])]

IsWeightedMean(coords, buffer) ==
    LET sums == ScaledSums(buffer, 1)
    IN  /\ coords.latitude[1] * sums.weight = coords.latitude[2] * sums.lat
        /\ coords.longitude[1] * sums.weight = coords.longitude[2] * sums.lng

(* C9: a delivery that publishes a position publishes the mean of the
   fixes in the buffer at that delivery, each weighted by 1 / accuracy, and
   the accuracy it publishes is the smallest accuracy in the buffer. *)
C9_PublishedIsWeightedMean ==
    [][(IsDelivery /\ lastReportedPositionRef' # lastReportedPositionRef) =>
          /\ IsWeightedMean(position', positionBufferRef')
          /\ \A k \in DOMAIN positionBufferRef' :
                accuracy' <= positionBufferRef'[k].accuracy
          /\ \E k \in DOMAIN positionBufferRef' :
                accuracy' = positionBufferRef'[k].accuracy]_vars

(* Fixes 0 (accuracy 20) and 10 (accuracy 10) published as 20/3 with
   accuracy 10: the plain mean would be 5, the mean accuracy 15. *)
C9_Witness ==
    /\ Len(deliveries) = 2
    /\ deliveries[1] = Fix(0, 20, 0)
    /\ deliveries[2] = Fix(10, 10, 0)
    /\ position # null
    /\ position.latitude = <<20, 3>>
    /\ accuracy = 10

(* C10: at most one watch is registered with the device, and it is the one
   the hook holds the id of. *)
C10_AtMostOneWatch ==
    /\ Cardinality(watches) <= 1
    /\ \A id \in watches : id = watchIdRef

(* startTracking has registered a second watch, and only that one is
   registered. *)
C10_Witness ==
    /\ nextWatchId = 3
    /\ isTracking
    /\ watches = {2}

(* C11: stopTracking is idempotent, and when no tracking is active it is a
   no-op: it changes none of position, accuracy, error, isTracking,
   isLoading or the subscription, also while a getBestReading or a
   getCurrentPosition call is in flight. *)
C11_StopTrackingIsNoOpWhenIdle ==
    [][stopTracking =>
          /\ watchIdRef' = nullNumber /\ ~isTracking' /\ ~isLoading'
          /\ (~isTracking /\ watchIdRef = nullNumber) =>
                UNCHANGED <<position, accuracy, error, isTracking,
                            isLoading, watchIdRef, watches>>]_vars

(* C12: stopTracking while tracking cancels the subscription within the
   call (no watch is registered and isTracking is false after it) and
   leaves the reported position and accuracy as they were. *)
C12_StopTrackingCancelsAndKeepsPosition ==
    [][(stopTracking /\ isTracking) =>
          /\ watches' = {}
          /\ watchIdRef' = nullNumber
          /\ ~isTracking'
          /\ UNCHANGED <<position, accuracy,
                         lastReportedPositionRef>>]_vars

(* Tracking was stopped after it had reported a position: nothing is
   registered and the position is still there. *)
C12_Witness ==
    /\ mounted
    /\ nextWatchId > 1
    /\ ~isTracking
    /\ watchIdRef = nullNumber
    /\ watches = {}
    /\ position # null
    /\ accuracy # nullNumber

(* C13: once the cleanup of the unmount has run, no watch is registered,
   whatever startTracking and stopTracking calls came before. *)
C13_NoWatchAfterUnmount == ~mounted => watches = {}

(* The component was unmounted while its second watch was tracking. *)
C13_Witness ==
    /\ ~mounted
    /\ isTracking
    /\ nextWatchId = 3
    /\ watchIdRef = 2

(* C14: an error delivered to a watch sets the error and leaves tracking
   on: isTracking stays true, the watch stays registered, the buffer and
   the reported position are unchanged; the next fix delivered clears the
   error and is pushed into the buffer. *)
C14_WatchErrorKeepsTracking ==
    [][/\ (\E code \in WatchErrorCodes : WatchError(code)) =>
             /\ error' \in {getErrorMessage(code) : code \in WatchErrorCodes}
             /\ isTracking /\ isTracking'
             /\ watches' = watches /\ watches' = {watchIdRef'}
             /\ UNCHANGED <<watchIdRef, positionBufferRef, position,
                            accuracy, lastReportedPositionRef>>
       /\ IsDelivery =>
             /\ error' = NO_ERROR
             /\ positionBufferRef'[Len(positionBufferRef')].coords
                   = NewFix.coords
             /\ isTracking']_vars

(* An error is shown while tracking goes on with a position reported
   before it. *)
C14_Witness ==
    /\ error = TIMEOUT_MESSAGE
    /\ isTracking
    /\ watches = {watchIdRef}
    /\ position # null
    /\ Len(positionBufferRef) > 0

----------------------------------------------------------------------------
(* Properties of the gps utilities, stated on a call and what it returned *)

(* C15: normalizeHeading, calculateRelativeHeading and calculateBearing
   return an angle v with 0 <= v < 360: normalizeHeading for negative
   arguments and arguments of any magnitude, calculateBearing also from
   a position to itself. *)
C15_AnglesInRange ==
    call.op \in {"normalizeHeading", "calculateRelativeHeading",
                 "calculateBearing"} =>
        /\ result # NeverReturns
        /\ ~RLt(result, Num(0))
        /\ RLt(result, Num(360))

(* C16: calculateRelativeHeading(bearing, 0) is normalizeHeading(bearing),
   and the arrow rotation in compass mode with a null compass heading is
   the rotation with heading 0, which is the bearing itself. *)
C16_ZeroHeadingIsBearing ==
    /\ (call.op = "calculateRelativeHeading"
           /\ REq(call.deviceHeading, Num(0))) =>
          REq(result, normalizeHeading(call.bearing))
    /\ (call.op = "arrowRotation" /\ ~call.useSimpleMode
           /\ call.compassHeading = noNumber
           /\ call.bearingToCar # noNumber) =>
          /\ REq(result, arrowRotation(call.bearingToCar, FALSE, Num(0)))
          /\ REq(result, call.bearingToCar)

(* The arrow of compass mode was rotated by the bearing 22.5 while the
   compass heading was null. *)
C16_Witness ==
    /\ call.op = "arrowRotation"
    /\ ~call.useSimpleMode
    /\ call.compassHeading = noNumber
    /\ call.bearingToCar = <<45, 2>>
    /\ result = <<45, 2>>

(* C17: for a bearing in [0, 360) getCardinalDirection returns the label
   of the 45-degree sector centred on the nearest multiple of 45: sector k
   reaches from 45k - 22.5 (included) to 45k + 22.5 (excluded), and sector
   8, from 337.5 on, is N again. *)
C17_CardinalIsNearestSector ==
    call.op = "getCardinalDirection" =>
        \E k \in 0..8 :
            /\ ~RLt(call.bearing, <<90 * k - 45, 2>>)
            /\ RLt(call.bearing, <<90 * k + 45, 2>>)
            /\ result = directions[(k % 8) + 1]

(* getCardinalDirection(337.5) returned "N". *)
C17_Witness ==
    /\ call.op = "getCardinalDirection"
    /\ call.bearing = <<675, 2>>
    /\ result = "N"

(* C18: getCardinalDirection(44) is "N", getCardinalDirection(46) is "NE",
   getCardinalDirection(0) is "N" and getCardinalDirection(90) is "E". *)
C18_CardinalExamples ==
    call.op = "getCardinalDirection" =>
        /\ call.bearing = Num(44) => result = "N"
        /\ call.bearing = Num(46) => result = "NE"
        /\ call.bearing = Num(0) => result = "N"
        /\ call.bearing = Num(90) => result = "E"

(* C18 as the code has it: getCardinalDirection(44) is "NE", as is
   getCardinalDirection(46); getCardinalDirection(0) is "N" and
   getCardinalDirection(90) is "E". *)
C18_CardinalExamplesOfTheCode ==
    call.op = "getCardinalDirection" =>
        /\ call.bearing = Num(44) => result = "NE"
        /\ call.bearing = Num(46) => result = "NE"
        /\ call.bearing = Num(0) => result = "N"
        /\ call.bearing = Num(90) => result = "E"

(* getCardinalDirection(44) returned "NE". *)
C18_Witness ==
    /\ call.op = "getCardinalDirection"
    /\ call.bearing = Num(44)
    /\ result = "NE"

(* C19: with feet = meters * 3.28084, formatDistance returns the unit "ft"
   and feet rounded to a whole number exactly when feet < 1000, and
   otherwise the unit "m" and meters rounded to the nearest multiple of
   10. *)
C19_FormatDistance ==
    call.op = "formatDistance" =>
        LET meters == call.meters
            feet == RMul(meters, FEET_PER_METER)
        IN  IF RLt(feet, Num(1000))
            THEN /\ result.unit = "ft"
                 /\ \E r \in 0..1000 :
                       /\ ~RLt(feet, <<2 * r - 1, 2>>)
                       /\ RLt(feet, <<2 * r + 1, 2>>)
                       /\ result.value = toLocaleString(r)
            ELSE /\ result.unit = "m"
                 /\ \E q \in 0..100 :
                       /\ ~RLt(meters, Num(10 * q - 5))
                       /\ RLt(meters, Num(10 * q + 5))
                       /\ result.value = toLocaleString(10 * q)

(* formatDistance(305) returned 310 m. *)
C19_Witness ==
    /\ call.op = "formatDistance"
    /\ call.meters = Num(305)
    /\ result = [value |-> "310", unit |-> "m"]

C30_FeetShownBelow1000 ==
    (call.op = "formatDistance" /\ result.unit = "ft") =>
        \E r \in 0..999 : result.value = toLocaleString(r)

----------------------------------------------------------------------------
(* Properties of the hook's position under tracking and one-shot calls *)

(* C26: the reported position is always the last-reported reference the
   movement gate measures from, whatever tracking deliveries,
   getBestReading and getCurrentPosition completions and stopTracking and
   startTracking calls came before. *)
C26_PositionIsGateReference == position = lastReportedPositionRef

----------------------------------------------------------------------------
(* Properties of the persistence layer *)

(* What the calls logged so far leave stored: the argument of the last save
   that returned true, unless a clear followed it *)
RECURSIVE LastWrite(_, _)
LastWrite(log, k) ==
    IF k = 0 THEN null
    ELSE IF log[k].op = "clear" THEN null
    ELSE IF log[k].returned THEN log[k].location
    ELSE LastWrite(log, k - 1)

(* C21: the persistence layer is a single slot where the last write wins:
   after any sequence of saveCarLocation and clearCarLocation calls,
   getCarLocation returns the argument of the most recent save that
   succeeded if no clear followed it, and null otherwise; a save whose
   setItem throws returns false and leaves what is stored as it was. *)
C21_LastWriteWins ==
    /\ getCarLocation = LastWrite(storageLog, Len(storageLog))
    /\ \A k \in DOMAIN storageLog :
          storageLog[k].op = "save" =>
              storageLog[k].returned = ~storageLog[k].setItemThrows

(* After a clear, a save succeeded and a save of another location failed:
   the location of the save that succeeded is returned. *)
C21_Witness ==
    /\ Len(storageLog) = 3
    /\ storageLog[1].op = "clear"
    /\ storageLog[2].op = "save" /\ storageLog[2].returned
    /\ storageLog[3].op = "save" /\ ~storageLog[3].returned
    /\ storageLog[3].location # storageLog[2].location
    /\ getCarLocation = storageLog[2].location

(* The text stored under STORAGE_KEY is not JSON. *)
MalformedRecord ==
    /\ hasItem(STORAGE_KEY)
    /\ JSONParse(getItem(STORAGE_KEY)).throws

(* C22: when the persisted record is malformed JSON, getCarLocation returns
   null instead of throwing, and the mount effect that finds it leaves the
   application in set mode with no saved location, no navigation started. *)
C22_MalformedRecordIsNoLocation ==
    [][MalformedRecord =>
          /\ getCarLocation = null
          /\ (mountPc = "pending" /\ mountPc' = "done") =>
                /\ carFinder'.savedLocation = null
                /\ carFinder'.mode = "set"
                /\ navPc' = "idle"
                /\ ~isTracking']_vars

(* The mount effect has run on a malformed record that is not empty. *)
C22_Witness ==
    /\ MalformedRecord
    /\ getItem(STORAGE_KEY) # <<>>
    /\ mountPc = "done"
    /\ carFinder.savedLocation = null
    /\ carFinder.mode = "set"

----------------------------------------------------------------------------
(* Properties of CarFinder *)

CompassUnavailableInFindMode ==
    carFinder.mode = "find" /\ ~orientation.isAvailable

(* C23: in every state in which the application is in find mode and the
   compass has reported itself unavailable, simple mode is on once the
   auto-enable effect has run, after any sequence of user actions, the
   toggle between compass and simple mode among them. *)
C23_SimpleModeWhenCompassUnavailable ==
    CompassUnavailableInFindMode => carFinder.useSimpleMode

(* A step of handleToggleMode: nothing but useSimpleMode changes. *)
ToggleStep ==
    /\ carFinder' = [carFinder EXCEPT !.useSimpleMode = ~@]
    /\ UNCHANGED <<orientation, navPc, mountPc, isTracking, localStorage,
                   listenerRef, eventListeners, availabilityChecks, now>>

(* C23, as the code has it: whenever find mode is entered with the compass
   unavailable, or the compass becomes unavailable in find mode, simple
   mode is on after the step; and in find mode with the compass unavailable
   nothing but the user's toggle switches simple mode off again. *)
C23_SimpleModeUntilToggled ==
    [][/\ (/\ carFinder'.mode = "find"
           /\ ~orientation'.isAvailable
           /\ \/ carFinder.mode # "find"
              \/ orientation.isAvailable)
          => carFinder'.useSimpleMode
       /\ (/\ CompassUnavailableInFindMode
           /\ carFinder'.mode = "find"
           /\ ~orientation'.isAvailable
           /\ carFinder.useSimpleMode
           /\ ~carFinder'.useSimpleMode)
          => ToggleStep]_vars

(* The compass became unavailable while navigating in compass mode, and
   simple mode is on. *)
C23_Witness ==
    /\ CompassUnavailableInFindMode
    /\ carFinder.useSimpleMode
    /\ listenerRef = HANDLE_ORIENTATION
    /\ orientation.isActive

(* No saved location exists, in localStorage or in the component. *)
NoSavedLocation ==
    getCarLocation = null /\ carFinder.savedLocation = null

(* C24: after handleClearLocation no saved location exists in localStorage
   or in the component's state until the user next starts a save, also when
   a save that was started before the clear completes after it. *)
C24_ClearedUntilNextSave == clearedSince => NoSavedLocation

(* C25: whenever the application is in find mode or GPS tracking is active,
   a saved car location exists, for every interleaving of "Find My Car"
   (which may wait for the permission prompt), "Clear Saved Location" and
   "Back". *)
C25_NavigationHasSavedLocation ==
    (carFinder.mode = "find" \/ isTracking) => carFinder.savedLocation # null

(* C27: when heading events have been delivered within the 2 seconds after
   startListening, the availability check does not mark the compass
   unavailable, so that navigation in compass mode with a working compass
   stays in compass mode: a check that runs while a heading is there and
   the compass is available leaves the compass available and the mode as
   it is. *)
C27_CheckKeepsWorkingCompass ==
    [][(/\ availabilityChecks' # availabilityChecks
        /\ availabilityChecks' \subseteq availabilityChecks
        /\ orientation.heading # nullNumber
        /\ orientation.isAvailable)
       => /\ orientation'.isAvailable
          /\ carFinder'.useSimpleMode = carFinder.useSimpleMode]_vars

(* C28: after stopListening, after the unmount and after a repeated
   startListening no deviceorientation listener attached before remains
   registered: at most one listener is ever live, and none is live once
   the hook has stopped listening or the component is gone. *)
C28_NoListenerAfterStop ==
    /\ Cardinality(eventListeners) <= 1
    /\ listenerRef = NO_LISTENER => eventListeners = {}
    /\ ~mounted => eventListeners = {}

----------------------------------------------------------------------------
(* Properties of the service worker *)

CurrentCacheNames == {CACHE_NAME, TILES_CACHE_NAME}

(* C29: the activation deletes exactly the caches that earlier versions
   have left: when the activate handler has completed, every cache named
   car-finder-* of another version is gone, the caches of this version,
   the application shell and the map tiles, are there with what they held,
   and no other cache has been touched. *)
C29_ActivationDeletesOldVersions ==
    [][(worker.state = "installed" /\ worker'.state = "activated") =>
          /\ \A cache \in caches' :
                startsWith(cache.name, CACHE_PREFIX) =>
                    cache.name \in CurrentCacheNames
          /\ \A cache \in caches :
                cache.name \in CurrentCacheNames => cache \in caches'
          /\ \A cache \in caches :
                ~startsWith(cache.name, CACHE_PREFIX) => cache \in caches'
      ]_vars

====
